---- MODULE Spec2Model ----
(***************************************************************************)
(* Model of lib/ansible/modules/cloud/docker/docker_network.py:            *)
(* DockerNetworkManager reconciles a named docker network and the set of   *)
(* containers connected to it against the state the docker daemon reports. *)
(*                                                                         *)
(* Representation                                                          *)
(*   - Python None for an optional scalar is None == <<>>, a set value v   *)
(*     is Some(v) == <<v>>.                                                *)
(*   - A Python dict is a function; a key whose value is None is left out  *)
(*     of the DOMAIN (the module skips None values, line 480).             *)
(*   - A CIDR string is a sequence of one-character strings, so that the   *)
(*     regular expressions of lines 298-299 are evaluated character by     *)
(*     character.                                                          *)
(*   - The docker daemon is the variable remote: None when the network     *)
(*     does not exist, Some(net) otherwise.  Its Containers are modelled   *)
(*     as the set of container names.                                      *)
(***************************************************************************)
EXTENDS Integers, Sequences, FiniteSets, TLC

VARIABLES
    params,            \* client.module.params: the task's arguments, fixed over all passes
    check_mode,        \* client.check_mode of the running pass
    remote,            \* the docker daemon's record of the network
    parameters,        \* self.parameters (TaskParameters), mutated by __init__
    existing_network,  \* self.existing_network: the snapshot the manager holds
    results,           \* self.results
    different,         \* local `different` of present()
    differences,       \* local `differences` of present(): sequence of difference names
    calls,             \* collaborator calls issued in the running pass, in order
    pc,                \* position of the running pass
    before,            \* remote at the start of the running pass (history)
    passNo,            \* number of the running pass
    prev,              \* outcome of the previous pass (history)
    diff,              \* client.module._diff, fixed over all passes
    versions,          \* client.docker_py_version and client.docker_api_version
    diff_tracker,      \* self.diff_tracker: the entries added, in order
    fresh,             \* no mutating call was issued since existing_network was assigned (history)
    stale_read         \* a decision read existing_network while it was not fresh (history)

vars == <<params, check_mode, remote, parameters, existing_network, results,
          different, differences, calls, pc, before, passNo, prev,
          diff, versions, diff_tracker, fresh, stale_read>>

---------------------------------------------------------------------------
(* Bounds *)

MaxPasses == 2       \* passes run in succession on the same task
MaxConnected == 2    \* length of the `connected` list of the task

---------------------------------------------------------------------------
(* Optional values and dicts *)

None == <<>>
Some(v) == <<v>>
EmptyDict == [k \in {} |-> k]

\* The fixed iteration order used for the values of the Containers dict.
NameOrder == <<"A", "B", "C">>

InOrder(S) == SelectSeq(NameOrder, LAMBDA n : n \in S)

Range(s) == { s[i] : i \in DOMAIN s }

---------------------------------------------------------------------------
(* CIDR strings, lines 298-315 *)

DigitOrder == <<"0", "1", "2", "3", "4", "5", "6", "7", "8", "9">>

Digits == {"0", "1", "2", "3", "4", "5", "6", "7", "8", "9"}

HexColon == Digits \cup {"a", "b", "c", "d", "e", "f",
                         "A", "B", "C", "D", "E", "F", ":"}

\* `$` of a Python pattern also matches just before one trailing newline.
DollarEnds(s) ==
    {s} \cup (IF Len(s) > 0 /\ s[Len(s)] = "\n" THEN {SubSeq(s, 1, Len(s) - 1)} ELSE {})

AllIn(s, S) == \A i \in DOMAIN s : s[i] \in S

\* ([0-9]|[1-2][0-9]|3[0-2])
PrefixV4(p) ==
    \/ Len(p) = 1 /\ p[1] \in Digits
    \/ Len(p) = 2 /\ p[1] \in {"1", "2"} /\ p[2] \in Digits
    \/ Len(p) = 2 /\ p[1] = "3" /\ p[2] \in {"0", "1", "2"}

\* ([0-9]|[1-9][0-9]|1[0-2][0-9])
PrefixV6(p) ==
    \/ Len(p) = 1 /\ p[1] \in Digits
    \/ Len(p) = 2 /\ p[1] \in (Digits \ {"0"}) /\ p[2] \in Digits
    \/ Len(p) = 3 /\ p[1] = "1" /\ p[2] \in {"0", "1", "2"} /\ p[3] \in Digits

\* [0-9]{1,3}
DigitGroup(g) == Len(g) \in 1..3 /\ AllIn(g, Digits)

\* ^([0-9]{1,3}\.){3}[0-9]{1,3}/([0-9]|[1-2][0-9]|3[0-2])$
CIDR_IPV4(cidr) ==
    \E s \in DollarEnds(cidr) :
      \E a \in 1..3, b \in 1..3, c \in 1..3, d \in 1..3 :
        LET n == a + b + c + d + 4 IN
        /\ Len(s) > n
        /\ DigitGroup(SubSeq(s, 1, a)) /\ s[a + 1] = "."
        /\ DigitGroup(SubSeq(s, a + 2, a + b + 1)) /\ s[a + b + 2] = "."
        /\ DigitGroup(SubSeq(s, a + b + 3, a + b + c + 2)) /\ s[a + b + c + 3] = "."
        /\ DigitGroup(SubSeq(s, a + b + c + 4, n - 1)) /\ s[n] = "/"
        /\ PrefixV4(SubSeq(s, n + 1, Len(s)))

\* ^[0-9a-fA-F:]+/([0-9]|[1-9][0-9]|1[0-2][0-9])$
CIDR_IPV6(cidr) ==
    \E s \in DollarEnds(cidr) :
      \E n \in 1..Len(s) :
        /\ n < Len(s)
        /\ AllIn(SubSeq(s, 1, n), HexColon)
        /\ s[n + 1] = "/"
        /\ PrefixV6(SubSeq(s, n + 2, Len(s)))

\* Returns "ipv4" or "ipv6"; "ValueError" stands for the raised exception.
get_ip_version(cidr) ==
    IF CIDR_IPV4(cidr) THEN "ipv4"
    ELSE IF CIDR_IPV6(cidr) THEN "ipv6"
    ELSE "ValueError"

---------------------------------------------------------------------------
(* Driver options, lines 318-331 *)

\* A Python value of a driver option: a boolean, a string or an integer.
BoolVal(b) == <<"bool", b>>
StrVal(s) == <<"str", s>>
IntVal(n) == <<"int", n>>

\* str(n) for an integer of one digit.
IntToStr(n) == DigitOrder[n + 1]

\* Mutant: str(v) without lines 323-326, a boolean reads "True" or "False".
OptionValue_python_str(v) ==
    IF v[1] = "bool" /\ v[2] THEN StrVal("True")
    ELSE IF v[1] = "bool" /\ ~v[2] THEN StrVal("False")
    ELSE IF v[1] = "int" THEN StrVal(IntToStr(v[2]))
    ELSE v

\* str(v), with the two branches for `v is True` and `v is False` in front.
OptionValue(v) ==
    IF v[1] = "bool" /\ v[2] THEN StrVal("true")
    ELSE IF v[1] = "bool" /\ ~v[2] THEN StrVal("false")
    ELSE IF v[1] = "int" THEN StrVal(IntToStr(v[2]))
    ELSE v

\* driver_options is None (<<>>) or a dict with string keys.
get_driver_options(driver_options) ==
    IF driver_options = None THEN EmptyDict
    ELSE [k \in DOMAIN driver_options |-> OptionValue(driver_options[k])]

---------------------------------------------------------------------------
(* The comparator, lines 432-514 *)

\* The keys of a pool of ipam_config, in the order of the argument spec.
PoolKeys == <<"subnet", "iprange", "gateway", "aux_addresses">>

\* str.lower() on the key names the daemon uses for a pool.
Lower(net_key) ==
    CASE net_key = "Subnet" -> "subnet"
      [] net_key = "IPRange" -> "iprange"
      [] net_key = "Gateway" -> "gateway"
      [] net_key = "AuxiliaryAddresses" -> "auxiliaryaddresses"
      [] OTHER -> net_key

\* Lines 470-475: the observed pool of the same IP version, the last one
\* when several match, the empty dict when none does.
RECURSIVE MatchPool(_, _, _)
MatchPool(ip_version, configs, net_config) ==
    IF configs = <<>> THEN net_config
    ELSE MatchPool(ip_version, Tail(configs),
                   IF ip_version = get_ip_version(Head(configs)["Subnet"])
                   THEN Head(configs) ELSE net_config)

\* Lines 471-477: what the try block of one desired pool raises.  A pool
\* without subnet hands None to re.match (TypeError, not caught); a string
\* that is no CIDR raises ValueError, which becomes client.fail.
RECURSIVE ObservedRaises(_)
ObservedRaises(configs) ==
    IF configs = <<>> THEN "ok"
    ELSE IF "Subnet" \notin DOMAIN Head(configs) THEN "KeyError"
    ELSE IF get_ip_version(Head(configs)["Subnet"]) = "ValueError" THEN "ValueError"
    ELSE ObservedRaises(Tail(configs))

PoolRaises(ipam_config, configs) ==
    IF "subnet" \notin DOMAIN ipam_config THEN "TypeError"
    ELSE IF get_ip_version(ipam_config["subnet"]) = "ValueError" THEN "ValueError"
    ELSE ObservedRaises(configs)

\* Lines 484-488: the key of net_config whose lower case is `key`, or None.
CamelKey(key, net_config) ==
    LET found == { net_key \in DOMAIN net_config : key = Lower(net_key) }
    IN IF found = {} THEN None ELSE Some(CHOOSE net_key \in found : TRUE)

\* Mutant: line 489 with `camelkey and`, a key the observed pool lacks is no
\* difference.
PoolKeyDiffers_found_only(key, ipam_config, net_config) ==
    /\ key \in DOMAIN ipam_config
    /\ LET camelkey == CamelKey(key, net_config)
       IN /\ camelkey # None
          /\ net_config[camelkey[1]] # ipam_config[key]

\* Lines 479-492 for one key of one desired pool.
PoolKeyDiffers(key, ipam_config, net_config) ==
    /\ key \in DOMAIN ipam_config
    /\ LET camelkey == CamelKey(key, net_config)
       IN \/ camelkey = None
          \/ net_config[camelkey[1]] # ipam_config[key]

\* Lines 479-492: the differences of the desired pool number idx (from 0).
PoolDifferences(idx, ipam_config, configs) ==
    LET net_config == MatchPool(get_ip_version(ipam_config["subnet"]), configs, EmptyDict)
        hit == SelectSeq(PoolKeys, LAMBDA key : PoolKeyDiffers(key, ipam_config, net_config))
    IN [i \in DOMAIN hit |-> <<"ipam_config", idx, hit[i]>>]

\* Lines 469-492: the loop over the desired pools; stops at the first raise.
RECURSIVE PoolsCompare(_, _, _)
PoolsCompare(idx, pools, configs) ==
    IF idx >= Len(pools) THEN [raised |-> "ok", differences |-> <<>>]
    ELSE LET r == PoolRaises(pools[idx + 1], configs)
         IN IF r # "ok" THEN [raised |-> r, differences |-> <<>>]
            ELSE LET rest == PoolsCompare(idx + 1, pools, configs)
                 IN [raised |-> rest.raised,
                     differences |-> PoolDifferences(idx, pools[idx + 1], configs)
                                       \o rest.differences]

\* The option keys a task or a network can carry, in iteration order.
OptionKeys == <<"k1", "k2">>

\* Mutant: lines 451-455 run over the observed options as well, an option
\* the task does not name is a difference.
DriverOptionDifferences_both_ways(p, net) ==
    IF DOMAIN p.driver_options = {} THEN <<>>
    ELSE IF DOMAIN net.Options = {} THEN << <<"driver_options">> >>
    ELSE LET keys == { key \in DOMAIN p.driver_options \cup DOMAIN net.Options :
                         \/ key \notin DOMAIN net.Options
                         \/ key \notin DOMAIN p.driver_options
                         \/ p.driver_options[key] # net.Options[key] }
             hit == SelectSeq(OptionKeys, LAMBDA key : key \in keys)
         IN [i \in DOMAIN hit |-> <<"driver_options", hit[i]>>]

\* Lines 445-455.
DriverOptionDifferences(p, net) ==
    IF DOMAIN p.driver_options = {} THEN <<>>
    ELSE IF DOMAIN net.Options = {} THEN << <<"driver_options">> >>
    ELSE LET keys == { key \in DOMAIN p.driver_options :
                         \/ key \notin DOMAIN net.Options
                         \/ p.driver_options[key] # net.Options[key] }
             hit == SelectSeq(OptionKeys, LAMBDA key : key \in keys)
         IN [i \in DOMAIN hit |-> <<"driver_options", hit[i]>>]

\* has_different_config(net): raised is "ok", or the exception that ends
\* the pass ("ValueError" is turned into client.fail by line 477);
\* differences is the DifferenceTracker as the sequence of its names.
has_different_config(p, net) ==
    LET d_driver ==
            IF p.driver # "" /\ p.driver # net.Driver THEN << <<"driver">> >> ELSE <<>>
        d_options == DriverOptionDifferences(p, net)
        d_ipam_driver ==
            IF p.ipam_driver # "" /\ net.IPAM.Driver # p.ipam_driver
            THEN << <<"ipam_driver">> >> ELSE <<>>
        pools ==
            IF p.ipam_config = <<>> THEN [raised |-> "ok", differences |-> <<>>]
            ELSE IF net.IPAM.Config = <<>>
                 THEN [raised |-> "ok", differences |-> << <<"ipam_config">> >>]
            ELSE PoolsCompare(0, p.ipam_config, net.IPAM.Config)
        d_enable_ipv6 ==
            IF p.enable_ipv6 # None /\ p.enable_ipv6[1] # net.EnableIPv6
            THEN << <<"enable_ipv6">> >> ELSE <<>>
        d_internal ==
            IF p.internal # None /\ p.internal[1] # net.Internal
            THEN << <<"internal">> >> ELSE <<>>
        d_scope ==
            IF p.scope # None /\ p.scope[1] # net.Scope
            THEN << <<"scope">> >> ELSE <<>>
        d_attachable ==
            IF p.attachable # None /\ p.attachable[1] # net.Attachable
            THEN << <<"attachable">> >> ELSE <<>>
        all == d_driver \o d_options \o d_ipam_driver \o pools.differences
                 \o d_enable_ipv6 \o d_internal \o d_scope \o d_attachable
    IN [raised |-> pools.raised,
        different |-> (pools.raised = "ok" /\ all # <<>>),
        differences |-> IF pools.raised = "ok" THEN all ELSE <<>>]

---------------------------------------------------------------------------
(* The docker daemon behind client.create_network / inspect_network *)

\* IPAMPool(**ipam_pool): the daemon's key names for the fields of a pool.
ServerKey(key) ==
    CASE key = "subnet" -> "Subnet"
      [] key = "iprange" -> "IPRange"
      [] key = "gateway" -> "Gateway"
      [] key = "aux_addresses" -> "AuxiliaryAddresses"

IPAMPool(ipam_pool) ==
    LET keys == { ServerKey(key) : key \in DOMAIN ipam_pool }
    IN [net_key \in keys |->
          ipam_pool[CHOOSE key \in DOMAIN ipam_pool : ServerKey(key) = net_key]]

\* The network the daemon reports after create_network(name, **params),
\* lines 518-553: no container is connected to a new network.
CreatedNetwork(p) ==
    [Driver |-> p.driver,
     Options |-> p.driver_options,
     IPAM |-> [Driver |-> IF p.ipam_driver = "" THEN "default" ELSE p.ipam_driver,
               Config |-> [i \in DOMAIN p.ipam_config |-> IPAMPool(p.ipam_config[i])]],
     EnableIPv6 |-> IF p.enable_ipv6 = None THEN FALSE ELSE p.enable_ipv6[1],
     Internal |-> IF p.internal = None THEN FALSE ELSE p.internal[1],
     Scope |-> IF p.scope = None THEN "local" ELSE p.scope[1],
     Attachable |-> IF p.attachable = None THEN FALSE ELSE p.attachable[1],
     Containers |-> {}]

\* container_names_in_network(network), lines 294-295, on a network that is
\* not None.
container_names_in_network(network) == InOrder(network.Containers)

---------------------------------------------------------------------------
(* The manager's methods.  `self` bundles the fields a method reads and    *)
(* writes together with the daemon: check_mode, parameters,                *)
(* existing_network, results, calls, remote, and raised (the exception     *)
(* that left the method, "ok" when none did), diff_tracker, and the        *)
(* history fields fresh and stale_read.                                    *)

\* DifferenceTracker.add(name, parameter, active): appends unconditionally.
DifferenceTracker_add(tracker, name, parameter, active) ==
    Append(tracker, [name |-> name, parameter |-> parameter, active |-> active])

\* A decision reads self.existing_network.
ReadsSnapshot(self) == [self EXCEPT !.stale_read = @ \/ ~self.fresh]

\* Mutant: an action is logged without results['changed'] = True.
Record_without_changed(self, action) ==
    [self EXCEPT !.results.actions = Append(@, action)]

\* Lines 556-557, 564-565, 575-576, 602-603: the action is appended to
\* results['actions'] and results['changed'] is set.
Record(self, action) ==
    [self EXCEPT !.results.actions = Append(@, action),
                 !.results.changed = TRUE]

\* Mutant: disconnect_container without the test of check_mode (line 600).
disconnect_container_unguarded(self, container_name, by) ==
    Record([self EXCEPT
              !.remote = Some([@[1] EXCEPT !.Containers = @ \ {container_name}]),
              !.calls = Append(@, <<"disconnect", container_name, by>>),
              !.fresh = FALSE,
              !.diff_tracker = DifferenceTracker_add(@, <<"connected", container_name>>,
                                                     FALSE, TRUE)],
           <<"Disconnected", container_name>>)

\* Lines 599-606.  `by` names the calling method in the call log.
disconnect_container(self, container_name, by) ==
    LET applied ==
          IF self.check_mode THEN self
          ELSE [self EXCEPT
                  !.remote = Some([@[1] EXCEPT !.Containers = @ \ {container_name}]),
                  !.calls = Append(@, <<"disconnect", container_name, by>>),
                  !.fresh = FALSE]
    IN Record([applied EXCEPT
                 !.diff_tracker = DifferenceTracker_add(@, <<"connected", container_name>>,
                                                        FALSE, TRUE)],
              <<"Disconnected", container_name>>)

RECURSIVE DisconnectEach(_, _, _)
DisconnectEach(self, names, by) ==
    IF names = <<>> THEN self
    ELSE DisconnectEach(disconnect_container(self, Head(names), by), Tail(names), by)

\* Lines 592-597: inspects the network again and disconnects every container.
disconnect_all_containers(self) ==
    LET inspected == [self EXCEPT !.calls = Append(@, <<"inspect">>)]
        containers == self.remote[1].Containers
    IN DisconnectEach(inspected, InOrder(containers), "disconnect_all_containers")

\* Mutant: remove_network with lines 561 and 562-563 swapped, the network is
\* removed before its containers are disconnected.
remove_network_first(self) ==
    IF self.existing_network # None
    THEN LET s1 == IF self.check_mode THEN self
                   ELSE [self EXCEPT !.calls = Append(@, <<"remove">>), !.fresh = FALSE]
             s2 == disconnect_all_containers(s1)
             s3 == IF s2.check_mode THEN s2 ELSE [s2 EXCEPT !.remote = None]
         IN Record(s3, <<"Removed">>)
    ELSE self

\* Mutant: remove_network without line 561, no container is disconnected.
remove_network_only(self) ==
    IF self.existing_network # None
    THEN LET s2 == IF self.check_mode THEN self
                   ELSE [self EXCEPT !.remote = None, !.fresh = FALSE,
                                     !.calls = Append(@, <<"remove">>)]
         IN Record(s2, <<"Removed">>)
    ELSE self

\* Lines 559-565.
remove_network(self) ==
    IF self.existing_network # None
    THEN LET s1 == disconnect_all_containers(self)
             s2 == IF s1.check_mode THEN s1
                   ELSE [s1 EXCEPT !.remote = None, !.fresh = FALSE,
                                   !.calls = Append(@, <<"remove">>)]
         IN Record(s2, <<"Removed">>)
    ELSE self

\* Lines 516-557.
create_network(self) ==
    IF self.existing_network = None
    THEN LET s1 == IF self.check_mode THEN self
                   ELSE [self EXCEPT
                           !.remote = Some(CreatedNetwork(self.parameters)),
                           !.existing_network = Some(CreatedNetwork(self.parameters)),
                           !.fresh = TRUE,
                           !.calls = @ \o << <<"create">>, <<"inspect">> >>]
         IN Record(s1, <<"Created">>)
    ELSE self

\* Mutant: is_container_connected answers False for every container.
is_container_connected_never(self, container_name) == FALSE

\* Line 567-568, on a snapshot that is not None.
is_container_connected(self, container_name) ==
    container_name \in Range(container_names_in_network(self.existing_network[1]))

\* Lines 573-579 for one name that is not connected.
connect_container(self, name) ==
    LET applied ==
          IF self.check_mode THEN self
          ELSE [self EXCEPT
                  !.remote = Some([@[1] EXCEPT !.Containers = @ \cup {name}]),
                  !.calls = Append(@, <<"connect", name>>),
                  !.fresh = FALSE]
    IN Record([applied EXCEPT
                 !.diff_tracker = DifferenceTracker_add(@, <<"connected", name>>, TRUE, FALSE)],
              <<"Connected", name>>)

RECURSIVE ConnectEach(_, _)
ConnectEach(self, names) ==
    IF names = <<>> THEN self
    ELSE IF self.existing_network = None
         THEN [self EXCEPT !.raised = "TypeError"]
    ELSE ConnectEach(IF is_container_connected(self, Head(names))
                     THEN ReadsSnapshot(self)
                     ELSE connect_container(ReadsSnapshot(self), Head(names)),
                     Tail(names))

\* Lines 570-579.  The first name looked up in a snapshot that is None
\* raises TypeError in container_names_in_network (None['Containers']).
connect_containers(self) == ConnectEach(self, self.parameters.connected)

\* Mutant: disconnect_missing with the test of line 585 inverted
\* (`if containers: return`), so that it never disconnects.
disconnect_missing_never(self) == self

\* Lines 581-590.
disconnect_missing(self) ==
    IF self.existing_network = None THEN self
    ELSE LET containers == self.existing_network[1].Containers
             missing == SelectSeq(InOrder(containers),
                                  LAMBDA name : name \notin Range(self.parameters.connected))
         IN DisconnectEach(ReadsSnapshot(self), missing, "disconnect_missing")

---------------------------------------------------------------------------
(* Version gating, lines 336-387 *)

\* LooseVersion(a) >= LooseVersion(b) on versions of numeric components:
\* the component lists are compared as Python compares lists.
RECURSIVE VersionGE(_, _)
VersionGE(a, b) ==
    IF b = <<>> THEN TRUE
    ELSE IF a = <<>> THEN FALSE
    ELSE IF Head(a) # Head(b) THEN Head(a) > Head(b)
    ELSE VersionGE(Tail(a), Tail(b))

\* Lines 341-344; every other option has no entry and is always supported.
option_minimal_versions ==
    [scope |-> [docker_py_version |-> <<2, 6, 0>>, docker_api_version |-> <<1, 30>>],
     attachable |-> [docker_py_version |-> <<2, 0, 0>>, docker_api_version |-> <<1, 26>>]]

\* Mutant: line 354 with `or` for `and`.
OptionSupported_either(option, v) ==
    \/ VersionGE(v.docker_py_version, option_minimal_versions[option].docker_py_version)
    \/ VersionGE(v.docker_api_version, option_minimal_versions[option].docker_api_version)

\* Lines 348-354.
OptionSupported(option, v) ==
    /\ VersionGE(v.docker_py_version, option_minimal_versions[option].docker_py_version)
    /\ VersionGE(v.docker_api_version, option_minimal_versions[option].docker_api_version)

\* Lines 358-363: scope and attachable have neither detect_usage nor a
\* default in the argument spec, the option is used when it is not None.
OptionUsed(option, p) == p[option] # None

\* _get_minimal_versions: TRUE when it ends in client.fail (line 387).
VersionGateFails(p, v) ==
    \E option \in DOMAIN option_minimal_versions :
        ~OptionSupported(option, v) /\ OptionUsed(option, p)

---------------------------------------------------------------------------
(* Tasks and networks the passes are run on *)

\* "10.0.0.0/24"
Subnet4 == <<"1", "0", ".", "0", ".", "0", ".", "0", "/", "2", "4">>
\* "not-a-cidr"
NotACidr == <<"n", "o", "t", "-", "a", "-", "c", "i", "d", "r">>

PoolSubnet == [subnet |-> Subnet4]
PoolAux == [subnet |-> Subnet4, aux_addresses |-> [host1 |-> "10.0.0.5"]]
PoolBad == [subnet |-> NotACidr]

\* The defaults of the argument spec, lines 639-665.
DefaultConfig ==
    [driver |-> "bridge", driver_options |-> EmptyDict, ipam_driver |-> "",
     ipam_options |-> EmptyDict, ipam_config |-> <<>>,
     enable_ipv6 |-> None, internal |-> None, scope |-> None, attachable |-> None,
     debug |-> FALSE]

TaskConfigs ==
    { DefaultConfig,
      [DefaultConfig EXCEPT !.driver = "overlay"],
      [DefaultConfig EXCEPT !.driver_options = [k1 |-> BoolVal(TRUE)]],
      [DefaultConfig EXCEPT !.ipam_config = <<PoolSubnet>>],
      [DefaultConfig EXCEPT !.ipam_config = <<PoolAux>>],
      [DefaultConfig EXCEPT !.ipam_config = <<PoolBad>>],
      [DefaultConfig EXCEPT !.ipam_options = PoolSubnet] }

\* Names the task may list in `connected`, and names of containers that may
\* be connected to the network before the first pass.
TaskNames == {"A", "C"}
NetworkNames == {"A", "B"}

SeqsUpTo(S, n) == UNION { [1..k -> S] : k \in 0..n }

Task(state, force, appends, connected, config) ==
    [state |-> state, force |-> force, appends |-> appends, connected |-> connected,
     driver |-> config.driver, driver_options |-> config.driver_options,
     ipam_driver |-> config.ipam_driver, ipam_options |-> config.ipam_options,
     ipam_config |-> config.ipam_config, enable_ipv6 |-> config.enable_ipv6,
     internal |-> config.internal, scope |-> config.scope,
     attachable |-> config.attachable, debug |-> config.debug]

Tasks ==
    { Task("present", force, appends, connected, config) :
        force \in BOOLEAN, appends \in BOOLEAN,
        connected \in SeqsUpTo(TaskNames, MaxConnected), config \in TaskConfigs }
    \cup
    { Task("absent", force, FALSE, connected, DefaultConfig) :
        force \in BOOLEAN, connected \in SeqsUpTo(TaskNames, MaxConnected) }

\* Networks found on the daemon before the first pass.
BridgeNetwork == CreatedNetwork(DefaultConfig)

InitialNetworks ==
    { [net EXCEPT !.Containers = containers] :
        net \in { BridgeNetwork,
                  [BridgeNetwork EXCEPT !.IPAM.Config = <<IPAMPool(PoolSubnet)>>] },
        containers \in SUBSET NetworkNames }

---------------------------------------------------------------------------
(* State machine *)

NoResults == [changed |-> FALSE, actions |-> <<>>]

NoPass == [check_mode |-> FALSE, status |-> "none", results |-> NoResults,
           before |-> None, after |-> None]

\* The versions of a current installation: every option is supported.
CurrentVersions == [docker_py_version |-> <<3, 7, 0>>, docker_api_version |-> <<1, 39>>]

\* The first pass is about to begin on one of the given tasks and networks.
InitWith(tasks, networks, versionSet, diffSet) ==
    /\ params \in tasks
    /\ remote \in {None} \cup { Some(net) : net \in networks }
    /\ check_mode \in BOOLEAN
    /\ versions \in versionSet
    /\ diff \in diffSet
    /\ parameters = params
    /\ existing_network = None
    /\ results = NoResults
    /\ different = FALSE
    /\ differences = <<>>
    /\ calls = <<>>
    /\ pc = "start"
    /\ before = remote
    /\ passNo = 1
    /\ prev = NoPass
    /\ diff_tracker = <<>>
    /\ fresh = TRUE
    /\ stale_read = FALSE

Init == InitWith(Tasks, InitialNetworks, {CurrentVersions}, {FALSE})

Self ==
    [check_mode |-> check_mode, parameters |-> parameters, remote |-> remote,
     existing_network |-> existing_network, results |-> results, calls |-> calls,
     raised |-> "ok", diff_tracker |-> diff_tracker, fresh |-> fresh,
     stale_read |-> stale_read]

\* Writes the fields of self back and moves on, or ends the pass on a raise.
Becomes(self, next) ==
    /\ parameters' = self.parameters
    /\ remote' = self.remote
    /\ existing_network' = self.existing_network
    /\ results' = self.results
    /\ calls' = self.calls
    /\ diff_tracker' = self.diff_tracker
    /\ fresh' = self.fresh
    /\ stale_read' = self.stale_read
    /\ pc' = IF self.raised = "ok" THEN next ELSE "crashed"

\* Mutant: __init__ without lines 405-406, an empty list stays empty.
SeedConnected_never(p, network) == p

\* Lines 405-406.
SeedConnected(p, network) ==
    IF p.connected = <<>> /\ network # None
    THEN [p EXCEPT !.connected = container_names_in_network(network[1])]
    ELSE p

\* Lines 408-410.
LegacyIpamOptions(p) ==
    IF DOMAIN p.ipam_options # {}
    THEN [p EXCEPT !.ipam_config = <<p.ipam_options>>]
    ELSE p

\* Lines 412-413.
NormalizeDriverOptions(p) ==
    IF DOMAIN p.driver_options # {}
    THEN [p EXCEPT !.driver_options = get_driver_options(p.driver_options)]
    ELSE p

\* DockerNetworkManager.__init__ up to the dispatch on state, lines 389-419:
\* the version gate of line 401 ends the pass before the network is fetched.
Construct ==
    /\ pc = "start"
    /\ IF VersionGateFails(params, versions)
       THEN /\ pc' = "failed"
            /\ UNCHANGED <<existing_network, calls, parameters>>
       ELSE /\ existing_network' = remote
            /\ calls' = Append(calls, <<"inspect">>)
            /\ parameters' =
                 NormalizeDriverOptions(LegacyIpamOptions(SeedConnected(params, remote)))
            /\ pc' = params.state
    /\ results' = NoResults
    /\ UNCHANGED <<params, check_mode, remote, different, differences, before, passNo, prev,
                   diff, versions, diff_tracker, fresh, stale_read>>

\* present(), lines 609-614.
Compare ==
    /\ pc = "present"
    /\ LET r == IF existing_network # None
                THEN has_different_config(parameters, existing_network[1])
                ELSE [raised |-> "ok", different |-> FALSE, differences |-> <<>>]
       IN /\ different' = r.different
          /\ differences' = r.differences
          /\ pc' = CASE r.raised = "ok" -> "recreate"
                     [] r.raised = "ValueError" -> "failed"
                     [] OTHER -> "crashed"
    /\ diff_tracker' = DifferenceTracker_add(diff_tracker, <<"exists">>, TRUE,
                                             existing_network # None)
    /\ UNCHANGED <<params, check_mode, remote, parameters, existing_network, results,
                   calls, before, passNo, prev, diff, versions, fresh, stale_read>>

\* Mutant: line 615 with `and` for `or`.
Recreate_force_and_different ==
    /\ pc = "recreate"
    /\ IF parameters.force /\ different
       THEN Becomes([remove_network(Self) EXCEPT !.existing_network = None, !.fresh = TRUE],
                    "create")
       ELSE Becomes(Self, "create")
    /\ UNCHANGED <<params, check_mode, different, differences, before, passNo, prev,
                   diff, versions>>

\* present(), lines 615-617.
Recreate ==
    /\ pc = "recreate"
    /\ IF parameters.force \/ different
       THEN Becomes([remove_network(Self) EXCEPT !.existing_network = None, !.fresh = TRUE],
                    "create")
       ELSE Becomes(Self, "create")
    /\ UNCHANGED <<params, check_mode, different, differences, before, passNo, prev,
                   diff, versions>>

\* present(), line 619.
Create ==
    /\ pc = "create"
    /\ Becomes(create_network(Self), "connect")
    /\ UNCHANGED <<params, check_mode, different, differences, before, passNo, prev,
                   diff, versions>>

\* present(), line 620.
Connect ==
    /\ pc = "connect"
    /\ Becomes(connect_containers(Self), "disconnect")
    /\ UNCHANGED <<params, check_mode, different, differences, before, passNo, prev,
                   diff, versions>>

\* present(), lines 621-622.
DisconnectMissing ==
    /\ pc = "disconnect"
    /\ IF ~parameters.appends
       THEN Becomes(disconnect_missing(Self), "report")
       ELSE Becomes(Self, "report")
    /\ UNCHANGED <<params, check_mode, different, differences, before, passNo, prev,
                   diff, versions>>

\* The modes that ask for more output, lines 421 and 624.
ModesRequested == diff \/ check_mode \/ parameters.debug

\* present(), lines 624-631: the differences are merged into the tracker
\* when a mode is on, the action log is dropped unless check or debug mode
\* is on, and the facts are read with one more inspect.
Report ==
    /\ pc = "report"
    /\ diff_tracker' = IF ModesRequested
                       THEN diff_tracker \o [i \in DOMAIN differences |->
                                               [name |-> differences[i]]]
                       ELSE diff_tracker
    /\ results' = [changed |-> results.changed, ansible_facts |-> remote]
                    @@ (IF ~check_mode /\ ~parameters.debug THEN EmptyDict
                        ELSE [actions |-> results.actions])
    /\ calls' = Append(calls, <<"inspect">>)
    /\ pc' = "exit"
    /\ UNCHANGED <<params, check_mode, remote, parameters, existing_network,
                   different, differences, before, passNo, prev, diff, versions,
                   fresh, stale_read>>

\* absent(), lines 633-635.
Absent ==
    /\ pc = "absent"
    /\ Becomes(remove_network([Self EXCEPT
                 !.diff_tracker = DifferenceTracker_add(@, <<"exists">>, FALSE,
                                                        existing_network # None)]),
               "exit")
    /\ UNCHANGED <<params, check_mode, different, differences, before, passNo, prev,
                   diff, versions>>

\* __init__, lines 421-424, and exit_json of line 681: results['diff'] holds
\* the legacy differences of present() and, with diff mode, the tracker from
\* which before and after are rendered.
Exit ==
    /\ pc = "exit"
    /\ results' =
         IF ModesRequested
         THEN results @@
              [diff |-> (IF params.state = "present"
                         THEN [differences |-> differences] ELSE EmptyDict)
                        @@ (IF diff THEN [before_after |-> diff_tracker] ELSE EmptyDict)]
         ELSE results
    /\ pc' = "done"
    /\ UNCHANGED <<params, check_mode, remote, parameters, existing_network,
                   different, differences, calls, before, passNo, prev, diff, versions,
                   diff_tracker, fresh, stale_read>>

\* The task is run again on what the previous pass left on the daemon.
NextPass ==
    /\ pc \in {"done", "failed", "crashed"}
    /\ passNo < MaxPasses
    /\ prev' = [check_mode |-> check_mode, status |-> pc, results |-> results,
                before |-> before, after |-> remote]
    /\ passNo' = passNo + 1
    /\ check_mode' \in BOOLEAN
    /\ parameters' = params
    /\ existing_network' = None
    /\ results' = NoResults
    /\ different' = FALSE
    /\ differences' = <<>>
    /\ calls' = <<>>
    /\ pc' = "start"
    /\ before' = remote
    /\ diff_tracker' = <<>>
    /\ fresh' = TRUE
    /\ stale_read' = FALSE
    /\ UNCHANGED <<params, remote, diff, versions>>

Next ==
    \/ Construct
    \/ Compare
    \/ Recreate
    \/ Create
    \/ Connect
    \/ DisconnectMissing
    \/ Report
    \/ Absent
    \/ Exit
    \/ NextPass

Spec == Init /\ [][Next]_vars

---------------------------------------------------------------------------
(* Passes with diff mode and debug, lines 393-396, 624-629 *)

ModeConfigs ==
    { [DefaultConfig EXCEPT !.debug = debug, !.driver = driver] :
        debug \in BOOLEAN, driver \in {"bridge", "overlay"} }

ModeTasks ==
    { Task(state, force, appends, connected, config) :
        state \in {"present", "absent"}, force \in BOOLEAN, appends \in BOOLEAN,
        connected \in {<<>>, <<"A">>}, config \in ModeConfigs }

ModeNetworks ==
    { [BridgeNetwork EXCEPT !.Containers = containers] : containers \in SUBSET {"A"} }

InitModes == InitWith(ModeTasks, ModeNetworks, {CurrentVersions}, BOOLEAN)

SpecModes == InitModes /\ [][Next]_vars

---------------------------------------------------------------------------
(* Passes on old installations, lines 336-387 *)

VersionConfigs ==
    { [DefaultConfig EXCEPT !.scope = scope, !.attachable = attachable] :
        scope \in {None, Some("swarm")},
        attachable \in {None, Some(TRUE), Some(FALSE)} }

VersionTasks ==
    { Task(state, FALSE, FALSE, <<>>, config) :
        state \in {"present", "absent"}, config \in VersionConfigs }

InstalledVersions ==
    { [docker_py_version |-> py, docker_api_version |-> api] :
        py \in { <<1, 10, 0>>, <<2, 0, 0>>, <<2, 5, 1>>, <<2, 6, 0>> },
        api \in { <<1, 22>>, <<1, 26>>, <<1, 29>>, <<1, 30>> } }

InitVersions == InitWith(VersionTasks, ModeNetworks, InstalledVersions, {FALSE})

SpecVersions == InitVersions /\ [][Next]_vars

---------------------------------------------------------------------------
(* has_different_config on IPAM pools, lines 463-492 *)

\* "10.0.0.0/25"
Range4 == <<"1", "0", ".", "0", ".", "0", ".", "0", "/", "2", "5">>
\* "fd00::/64"
Subnet6 == <<"f", "d", "0", "0", ":", ":", "/", "6", "4">>

Pool4Values ==
    [subnet |-> Subnet4, iprange |-> Range4, gateway |-> "10.0.0.1",
     aux_addresses |-> [host1 |-> "10.0.0.5"]]

Pool6Values == [subnet |-> Subnet6, gateway |-> "fd00::1"]

Restrict(f, keys) == [key \in keys |-> f[key]]

\* A pool of the task: None-valued keys are left out.
Pools4 == { Restrict(Pool4Values, keys) : keys \in (SUBSET DOMAIN Pool4Values) \ {{}} }
Pools6 == { Restrict(Pool6Values, keys) : keys \in {{"subnet"}, {"subnet", "gateway"}} }

\* Lists with at most one pool of each IP family.
PoolLists ==
    { <<pool>> : pool \in Pools4 \cup Pools6 }
    \cup { <<p4, p6>> : p4 \in Pools4, p6 \in Pools6 }
    \cup { <<p6, p4>> : p4 \in Pools4, p6 \in Pools6 }

CompareTasks ==
    { Task("present", FALSE, FALSE, <<>>, [DefaultConfig EXCEPT !.ipam_config = pools]) :
        pools \in PoolLists }

\* The daemon reports a Subnet for every pool: the networks created from
\* the tasks whose pools all have a subnet, and a network without pools.
CompareNetworks ==
    { CreatedNetwork(task) :
        task \in { t \in CompareTasks :
                     \A i \in DOMAIN t.ipam_config : "subnet" \in DOMAIN t.ipam_config[i] } }
    \cup {BridgeNetwork}

InitCompare == InitWith(CompareTasks, CompareNetworks, {CurrentVersions}, {FALSE})

\* __init__ up to the comparison of present().
NextCompare ==
    \/ Construct
    \/ Compare

SpecCompare == InitCompare /\ [][NextCompare]_vars

---------------------------------------------------------------------------
(* has_different_config on every field, lines 432-514 *)

FieldConfigs ==
    { [driver |-> driver, driver_options |-> driver_options, ipam_driver |-> ipam_driver,
       ipam_options |-> EmptyDict, ipam_config |-> ipam_config,
       enable_ipv6 |-> enable_ipv6, internal |-> internal, scope |-> scope,
       attachable |-> attachable, debug |-> FALSE] :
        driver \in {"bridge", "overlay"},
        driver_options \in { EmptyDict, [k1 |-> BoolVal(TRUE)],
                             [k1 |-> StrVal("true"), k2 |-> IntVal(1)] },
        ipam_driver \in {"", "custom"},
        ipam_config \in { <<>>, <<PoolSubnet>>,
                          <<Restrict(Pool4Values, {"subnet", "gateway"})>> },
        enable_ipv6 \in {None, Some(TRUE)},
        internal \in {None, Some(FALSE), Some(TRUE)},
        scope \in {None, Some("swarm")},
        attachable \in {None, Some(TRUE)} }

FieldTasks == { Task("present", FALSE, FALSE, <<>>, config) : config \in FieldConfigs }

\* The network created with every option set, which carries two driver
\* options and a pool with Subnet and Gateway.
FullNetwork ==
    CreatedNetwork(
        [driver |-> "overlay",
         driver_options |-> get_driver_options([k1 |-> BoolVal(TRUE), k2 |-> IntVal(1)]),
         ipam_driver |-> "custom",
         ipam_config |-> <<Restrict(Pool4Values, {"subnet", "gateway"})>>,
         enable_ipv6 |-> Some(TRUE), internal |-> Some(TRUE), scope |-> Some("swarm"),
         attachable |-> Some(TRUE)])

FieldNetworks ==
    { BridgeNetwork, FullNetwork,
      [FullNetwork EXCEPT !.Options = [k2 |-> StrVal("1")]],
      [BridgeNetwork EXCEPT !.IPAM.Config = FullNetwork.IPAM.Config] }

InitFields == InitWith(FieldTasks, FieldNetworks, {CurrentVersions}, {FALSE})

SpecFields == InitFields /\ [][NextCompare]_vars

---------------------------------------------------------------------------
(* get_ip_version on prefix lengths, lines 298-315 *)

MaxPrefix == 140     \* largest prefix length written into a subnet

\* str(n) for n >= 0, as a sequence of characters.
RECURSIVE Decimal(_)
Decimal(n) ==
    IF n < 10 THEN <<DigitOrder[n + 1]>>
    ELSE Append(Decimal(n \div 10), DigitOrder[(n % 10) + 1])

\* "10.0.0.0" and "fd00::"
Address4 == <<"1", "0", ".", "0", ".", "0", ".", "0">>
Address6 == <<"f", "d", "0", "0", ":", ":">>

CidrStrings ==
    { address \o <<"/">> \o Decimal(n) : address \in {Address4, Address6}, n \in 0..MaxPrefix }

CidrTasks ==
    { Task("present", FALSE, FALSE, <<>>,
           [DefaultConfig EXCEPT !.ipam_config = <<[subnet |-> cidr]>>]) :
        cidr \in CidrStrings }

CidrNetworks ==
    { [BridgeNetwork EXCEPT !.IPAM.Config = <<IPAMPool(pool)>>] :
        pool \in {PoolSubnet, [subnet |-> Subnet6]} }

InitCidr == InitWith(CidrTasks, CidrNetworks, {CurrentVersions}, {FALSE})

SpecCidr == InitCidr /\ [][NextCompare]_vars

---------------------------------------------------------------------------
(* get_driver_options on option dicts, lines 318-331 *)

OptionValues ==
    { BoolVal(TRUE), BoolVal(FALSE), StrVal("true"), StrVal("True"), StrVal("x"),
      IntVal(0), IntVal(1) }

OptionDicts ==
    UNION { [keys -> OptionValues] : keys \in SUBSET Range(OptionKeys) }

OptionTasks ==
    { Task("present", FALSE, FALSE, <<>>,
           [DefaultConfig EXCEPT !.driver_options = driver_options]) :
        driver_options \in OptionDicts }

OptionNetworks ==
    { BridgeNetwork, [BridgeNetwork EXCEPT !.Options = [k1 |-> StrVal("true")]] }

InitOptions == InitWith(OptionTasks, OptionNetworks, {CurrentVersions}, {FALSE})

SpecOptions == InitOptions /\ [][NextCompare]_vars

TypeOK ==
    /\ pc \in {"start", "present", "absent", "recreate", "create", "connect",
               "disconnect", "report", "exit", "done", "failed", "crashed"}
    /\ passNo \in 1..MaxPasses
    /\ check_mode \in BOOLEAN
    /\ results.changed \in BOOLEAN

---------------------------------------------------------------------------
(* Reading the logs *)

IsMutating(call) == call[1] \in {"create", "remove", "connect", "disconnect"}

Mutating(log) == SelectSeq(log, IsMutating)

\* The kind of a call; a disconnect is told apart by the method that
\* issued it.
CallKind(call) ==
    IF call[1] = "disconnect"
    THEN (IF call[3] = "disconnect_all_containers"
          THEN "disconnect_all" ELSE "disconnect_missing")
    ELSE call[1]

Indices(log, kind) == { i \in DOMAIN log : CallKind(log[i]) = kind }

\* Every call of kind `first` stands before every call of kind `then`.
Precedes(log, first, then) ==
    \A i \in Indices(log, first), j \in Indices(log, then) : i < j

Existed == before # None

Finished == pc = "done"

---------------------------------------------------------------------------
(* C1 *)

\* C1: when the task is run twice in succession without check mode, the
\* second pass reports changed = false.  Stated for the tasks that do not
\* set force (with force every pass removes and re-creates the network).
C1_SecondPassUnchanged ==
    (/\ passNo > 1 /\ Finished /\ ~check_mode
     /\ ~prev.check_mode /\ prev.status = "done"
     /\ ~params.force)
    => ~results.changed

---------------------------------------------------------------------------
(* C2 *)

\* C2: in check mode no create, remove, connect or disconnect call is ever
\* issued, and the daemon's state stays what it was when the pass began.
C2_CheckModeIssuesNothing ==
    check_mode => (Mutating(calls) = <<>> /\ remote = before)

\* A check-mode pass on a network with two containers ran to its end and
\* decided to disconnect both and to remove the network, which is still there.
C2_Witness ==
    /\ check_mode /\ Finished /\ Existed
    /\ before[1].Containers = {"A", "B"}
    /\ "actions" \in DOMAIN results
    /\ \E i, j, k \in DOMAIN results.actions :
         /\ results.actions[i] = <<"Disconnected", "A">>
         /\ results.actions[j] = <<"Disconnected", "B">>
         /\ results.actions[k] = <<"Removed">>
    /\ remote # None

---------------------------------------------------------------------------
(* C3 *)

\* C3: a pass in check mode completes and reports the same changed flag and
\* the same ordered action list as the pass without check mode run from the
\* same state of the daemon (compared before the action list is dropped
\* from the results of the pass without check mode).
C3_CheckModeComputesTheSame ==
    (/\ passNo > 1 /\ prev.check_mode /\ ~check_mode
     /\ prev.before = before
     /\ pc = "report")
    => /\ prev.status = "done"
       /\ prev.results.changed = results.changed
       /\ prev.results.actions = results.actions

---------------------------------------------------------------------------
(* C4 *)

\* C4: in the calls of one pass every disconnect of a removal stands before
\* the remove, the remove before the create, the create before every
\* connect, and every connect before every disconnect of a missing member.
C4_CallOrder ==
    /\ Precedes(calls, "disconnect_all", "remove")
    /\ Precedes(calls, "remove", "create")
    /\ Precedes(calls, "create", "connect")
    /\ Precedes(calls, "connect", "disconnect_missing")

\* A pass that disconnected, removed, created and connected.
C4_Witness ==
    /\ Finished
    /\ Indices(calls, "disconnect_all") # {}
    /\ Indices(calls, "remove") # {}
    /\ Indices(calls, "create") # {}
    /\ Indices(calls, "connect") # {}

---------------------------------------------------------------------------
(* C5 *)

Logged(kind) == { i \in DOMAIN results.actions : results.actions[i][1] = kind }

---------------------------------------------------------------------------
(* C6 *)

Position(log, entry) == CHOOSE i \in DOMAIN log : log[i] = entry

---------------------------------------------------------------------------
(* C7 *)

\* C7: with state absent and force not set, no disconnect call is issued.
C7_AbsentWithoutForceKeepsContainers ==
    (params.state = "absent" /\ ~params.force)
    => /\ Indices(calls, "disconnect_all") = {}
       /\ Indices(calls, "disconnect_missing") = {}

---------------------------------------------------------------------------
(* C8 *)

\* C8: state present, appends false, a non-empty connected list: after a
\* pass without check mode the containers connected to the network are
\* exactly the listed ones, whether or not the network was (re)created.
C8_CanonicalMembership ==
    (/\ params.state = "present" /\ ~params.appends /\ params.connected # <<>>
     /\ Finished /\ ~check_mode)
    => /\ remote # None
       /\ remote[1].Containers = Range(params.connected)

\* The scenario of the specification: connected {A, B}, wanted {A, C}, the
\* network is kept and ends with {A, C}.
C8_Witness ==
    /\ params.state = "present" /\ ~params.appends /\ Finished /\ ~check_mode
    /\ Existed /\ before[1].Containers = {"A", "B"}
    /\ Range(params.connected) = {"A", "C"}
    /\ Indices(calls, "remove") = {}
    /\ <<"connect", "C">> \in Range(calls)
    /\ <<"disconnect", "B", "disconnect_missing">> \in Range(calls)
    /\ remote # None /\ remote[1].Containers = {"A", "C"}

---------------------------------------------------------------------------
(* C9 *)

\* C9: state present with appends: every container connected before the
\* pass is still connected after it, also when the pass re-creates the
\* network.  Stated for the tasks that do not set force (force is documented
\* to disconnect all containers), so the network is re-created only because
\* its configuration differs.
C9_AppendsKeepsContainers ==
    (/\ params.state = "present" /\ params.appends /\ ~params.force
     /\ Finished /\ Existed)
    => /\ remote # None
       /\ before[1].Containers \subseteq remote[1].Containers

---------------------------------------------------------------------------
(* C10 *)

\* C10: state present, appends false, an empty connected list: after the
\* pass no container is connected to a network that had some.
C10_EmptyListDisconnectsAll ==
    (/\ params.state = "present" /\ ~params.appends /\ params.connected = <<>>
     /\ Finished /\ ~check_mode
     /\ Existed /\ before[1].Containers # {})
    => /\ remote # None
       /\ remote[1].Containers = {}

---------------------------------------------------------------------------
(* C11 *)

---------------------------------------------------------------------------
(* C12 *)

Names(log, kind) == { log[i][2] : i \in Indices(log, kind) }

LoggedNames(kind) ==
    { results.actions[i][2] : i \in Logged(kind) }

\* C12: the containers connected by connect_containers are none of the
\* observed ones (those of the snapshot the step works on), the containers
\* disconnected by disconnect_missing are observed ones that are not in the
\* connected list, the two sets are disjoint, and with appends the step
\* disconnects nothing.  Read from the calls of a pass without check mode,
\* and from the action log of a check-mode pass that removed nothing.
C12_MembershipDelta ==
    (params.state = "present" /\ pc \in {"disconnect", "report"} /\ existing_network # None)
    => LET observed == existing_network[1].Containers
           desired == Range(parameters.connected)
           toConnect == IF check_mode THEN LoggedNames("Connected")
                        ELSE Names(calls, "connect")
           toDisconnect == IF check_mode
                           THEN (IF Logged("Removed") = {}
                                 THEN LoggedNames("Disconnected") ELSE {})
                           ELSE Names(calls, "disconnect_missing")
       IN /\ toConnect \cap observed = {}
          /\ toDisconnect \subseteq (observed \ desired)
          /\ toConnect \cap toDisconnect = {}
          /\ parameters.appends => toDisconnect = {}
          /\ pc = "report" =>
                /\ toConnect = desired \ observed
                /\ ~parameters.appends => toDisconnect = observed \ desired

\* Observed {A, B}, wanted [A, C]: C was connected and B disconnected.
C12_Witness ==
    /\ params.state = "present" /\ pc = "report" /\ ~check_mode
    /\ existing_network # None /\ existing_network[1].Containers = {"A", "B"}
    /\ Range(parameters.connected) = {"A", "C"}
    /\ Names(calls, "connect") = {"C"}
    /\ Names(calls, "disconnect_missing") = {"B"}

---------------------------------------------------------------------------
(* C13 *)

\* C13: at every point of a pass results.changed is true exactly when an
\* action has been recorded (the action log while the results carry it, the
\* mutating calls of a pass without check mode); a pass on a network whose
\* configuration does not differ, without force and with the wanted
\* containers connected, ends with changed = false.
C13_ChangedIffAction ==
    /\ "actions" \in DOMAIN results => (results.changed <=> results.actions # <<>>)
    /\ ~check_mode => (results.changed <=> Mutating(calls) # <<>>)
    /\ (/\ params.state = "present" /\ Finished /\ Existed
        /\ ~params.force /\ ~different
        /\ before[1].Containers = Range(parameters.connected))
       => ~results.changed

\* A pass on a network with container A, which is the one wanted, found
\* nothing to do.
C13_Witness ==
    /\ params.state = "present" /\ Finished /\ Existed /\ ~check_mode
    /\ ~params.force /\ ~different
    /\ params.connected = <<"A">> /\ before[1].Containers = {"A"}
    /\ ~results.changed /\ Mutating(calls) = <<>>

---------------------------------------------------------------------------
(* C15 *)

\* C15: in a pass without check mode every create, remove, connect and
\* disconnect call is followed by a fetch of the network before the next
\* decision that reads the observed state (is_container_connected,
\* disconnect_missing): no decision reads a snapshot taken before the last
\* mutating call.
C15_DecisionsReadFreshSnapshot ==
    ~check_mode => ~stale_read

---------------------------------------------------------------------------
(* C17 *)

InvalidCidr(p) ==
    \E i \in DOMAIN p.ipam_config :
        /\ "subnet" \in DOMAIN p.ipam_config[i]
        /\ get_ip_version(p.ipam_config[i]["subnet"]) = "ValueError"

\* C17: for state present, when the subnet of a desired pool matches neither
\* CIDR pattern the pass ends in a fatal error and issues no create, remove,
\* connect or disconnect call, whether the network exists, does not exist,
\* or exists without pools.
C17_InvalidCidrIsFatal ==
    (params.state = "present" /\ InvalidCidr(LegacyIpamOptions(params)))
    => /\ Mutating(calls) = <<>>
       /\ pc \in {"start", "present", "failed"}

---------------------------------------------------------------------------
(* C19 *)

\* The containers connected to the network when the call number i of the
\* log is issued: those found at fetch (none once the network was created
\* in this pass), with the connects and disconnects issued before i.
RECURSIVE ConnectedAt(_, _, _)
ConnectedAt(log, i, found) ==
    IF i <= 1 THEN found
    ELSE LET earlier == ConnectedAt(log, i - 1, found)
             call == log[i - 1]
         IN CASE CallKind(call) \in {"remove", "create"} -> {}
              [] CallKind(call) = "connect" -> earlier \cup {call[2]}
              [] CallKind(call) \in {"disconnect_all", "disconnect_missing"} ->
                     earlier \ {call[2]}
              [] OTHER -> earlier

\* C19: connect_container_to_network is never called for a container that
\* is connected to the network at the time of the call, and at most once
\* per container in a pass, also when connected names a container twice.
C19_ConnectsOncePerMember ==
    ~check_mode =>
        LET found == IF before = None THEN {} ELSE before[1].Containers
            connects == Indices(calls, "connect")
        IN /\ \A i \in connects : calls[i][2] \notin ConnectedAt(calls, i, found)
           /\ \A i, j \in connects : calls[i][2] = calls[j][2] => i = j

---------------------------------------------------------------------------
(* C14 *)

\* C14: for state present and for state absent, the result of a finished
\* pass carries the action log exactly when diff, check or debug mode was
\* requested.
C14_ActionsOnlyOnRequest ==
    Finished =>
        (("actions" \in DOMAIN results) <=> (diff \/ check_mode \/ params.debug))

---------------------------------------------------------------------------
(* C16 *)

\* The observed pools carry the values of the desired pools under the
\* server's field names, pool for pool.
ExactMirror ==
    /\ existing_network # None
    /\ parameters.ipam_config # <<>>
    /\ \A i \in DOMAIN parameters.ipam_config : "subnet" \in DOMAIN parameters.ipam_config[i]
    /\ existing_network[1].IPAM.Config =
         [i \in DOMAIN parameters.ipam_config |-> IPAMPool(parameters.ipam_config[i])]

Compared == pc \in {"recreate", "failed", "crashed"}

\* C16: for a list of desired pools with at most one pool per IP family,
\* whatever fields of subnet, iprange, gateway and aux_addresses are set,
\* has_different_config reports no ipam_config difference on a network whose
\* pools carry exactly the desired values.
C16_MirrorHasNoIpamDifference ==
    (Compared /\ ExactMirror)
    => /\ pc = "recreate"
       /\ \A k \in DOMAIN differences : differences[k][1] # "ipam_config"

---------------------------------------------------------------------------
(* C18 *)

Requested(option) == params[option] # None

\* C18: the pass fails before the network is fetched and before any
\* mutating call exactly when scope is requested with docker-py below 2.6.0
\* or an API below 1.30, or attachable is requested with docker-py below
\* 2.0.0 or an API below 1.26; an unsupported option that is not requested
\* does not fail the pass.
C18_VersionGate ==
    pc # "start" =>
        LET py == versions.docker_py_version
            api == versions.docker_api_version
            gated ==
              \/ /\ Requested("scope")
                 /\ (~VersionGE(py, <<2, 6, 0>>) \/ ~VersionGE(api, <<1, 30>>))
              \/ /\ Requested("attachable")
                 /\ (~VersionGE(py, <<2, 0, 0>>) \/ ~VersionGE(api, <<1, 26>>))
        IN /\ gated <=> (pc = "failed" /\ calls = <<>>)
           /\ ~gated => pc # "failed"

\* docker-py 2.6.0 with API 1.29 and scope requested: the pass failed with
\* no call issued; attachable alone would have been supported.
C18_Witness ==
    /\ pc = "failed" /\ calls = <<>> /\ existing_network = None
    /\ versions = [docker_py_version |-> <<2, 6, 0>>, docker_api_version |-> <<1, 29>>]
    /\ Requested("scope") /\ ~Requested("attachable")
    /\ remote # None /\ remote = before

---------------------------------------------------------------------------
(* C20 *)

\* The desired pool number i (from 1) has a subnet of an IP family that no
\* observed pool has, while the network has pools.
NoPoolOfFamily(i) ==
    /\ existing_network # None
    /\ existing_network[1].IPAM.Config # <<>>
    /\ "subnet" \in DOMAIN parameters.ipam_config[i]
    /\ \A j \in DOMAIN existing_network[1].IPAM.Config :
          get_ip_version(existing_network[1].IPAM.Config[j]["Subnet"])
            # get_ip_version(parameters.ipam_config[i]["subnet"])

\* The differences recorded for the desired pool number i (from 1).
DifferencesOfPool(i) ==
    { k \in DOMAIN differences :
        /\ differences[k][1] = "ipam_config"
        /\ Len(differences[k]) = 3
        /\ differences[k][2] = i - 1 }

\* C20 as stated: one difference for the whole pool.
C20_OneDifferencePerPool ==
    pc = "recreate" =>
        \A i \in DOMAIN parameters.ipam_config :
            NoPoolOfFamily(i) => Cardinality(DifferencesOfPool(i)) = 1

\* C20: when the network has pools but none of the IP family of a desired
\* pool, has_different_config records one difference for every field set in
\* that pool, ipam_config[i].<field>; the single difference ipam_config is
\* recorded only when the network has no pool at all.
C20_OneDifferencePerField ==
    pc = "recreate" =>
        /\ \A i \in DOMAIN parameters.ipam_config :
              NoPoolOfFamily(i) =>
                 /\ { differences[k][3] : k \in DifferencesOfPool(i) }
                      = DOMAIN parameters.ipam_config[i]
                 /\ Cardinality(DifferencesOfPool(i))
                      = Cardinality(DOMAIN parameters.ipam_config[i])
        /\ (<<"ipam_config">> \in Range(differences))
              <=> /\ existing_network # None
                  /\ parameters.ipam_config # <<>>
                  /\ existing_network[1].IPAM.Config = <<>>

\* An IPv6 pool with subnet and gateway against a network that has one IPv4
\* pool: two differences, ipam_config[0].subnet and ipam_config[0].gateway.
C20_Witness ==
    /\ pc = "recreate"
    /\ parameters.ipam_config = <<Pool6Values>>
    /\ existing_network # None
    /\ existing_network[1].IPAM.Config = <<IPAMPool(PoolSubnet)>>
    /\ NoPoolOfFamily(1)
    /\ differences = << <<"ipam_config", 0, "subnet">>, <<"ipam_config", 0, "gateway">> >>

---------------------------------------------------------------------------
(* C21 *)

\* The field a difference names has a value in the task.
NamesSetField(difference) ==
    LET name == difference[1] IN
    CASE name = "driver" -> parameters.driver # ""
      [] name = "driver_options" ->
            IF Len(difference) = 1 THEN DOMAIN parameters.driver_options # {}
            ELSE difference[2] \in DOMAIN parameters.driver_options
      [] name = "ipam_driver" -> parameters.ipam_driver # ""
      [] name = "ipam_config" ->
            IF Len(difference) = 1 THEN parameters.ipam_config # <<>>
            ELSE /\ difference[2] + 1 \in DOMAIN parameters.ipam_config
                 /\ difference[3] \in DOMAIN parameters.ipam_config[difference[2] + 1]
      [] name \in {"enable_ipv6", "internal", "scope", "attachable"} ->
            parameters[name] # None
      [] OTHER -> FALSE

\* C21: every difference has_different_config records names a field whose
\* desired value is set (driver, a driver option key, ipam_driver, a field
\* of a pool of ipam_config, enable_ipv6, internal, scope, attachable);
\* driver options and pool fields of the network that the task does not
\* name produce no difference.
C21_DifferencesNameSetFields ==
    pc = "recreate" =>
        \A k \in DOMAIN differences : NamesSetField(differences[k])

\* The task sets driver, one driver option, ipam_driver and a pool with a
\* subnet; the network has a second driver option, a Gateway in the pool,
\* IPv6, internal, scope swarm and attachable: no difference.
C21_Witness ==
    /\ pc = "recreate" /\ existing_network = Some(FullNetwork)
    /\ DOMAIN parameters.driver_options = {"k1"}
    /\ parameters.ipam_config = <<PoolSubnet>>
    /\ parameters.enable_ipv6 = None /\ parameters.internal = None
    /\ parameters.scope = None /\ parameters.attachable = None
    /\ ~different /\ differences = <<>>

---------------------------------------------------------------------------
(* C22 *)

DigitValue(c) == CHOOSE d \in 0..9 : DigitOrder[d + 1] = c

\* The number a sequence of decimal digits writes.
RECURSIVE DecimalValue(_)
DecimalValue(s) ==
    IF s = <<>> THEN 0
    ELSE 10 * DecimalValue(SubSeq(s, 1, Len(s) - 1)) + DigitValue(s[Len(s)])

SlashAt(cidr) == CHOOSE i \in DOMAIN cidr : cidr[i] = "/"

PrefixLength(cidr) == DecimalValue(SubSeq(cidr, SlashAt(cidr) + 1, Len(cidr)))

AddressOf(cidr) == SubSeq(cidr, 1, SlashAt(cidr) - 1)

\* C22: get_ip_version answers ipv6 only for a prefix length in 0..128 and
\* ipv4 only for a prefix length in 0..32; a hex-colon address with a prefix
\* length of 129 or more and a dotted address with a prefix length of 33 or
\* more raise ValueError, which ends the pass in client.fail.
C22_PrefixRanges ==
    (Compared /\ existing_network # None) =>
        LET cidr == parameters.ipam_config[1]["subnet"]
            n == PrefixLength(cidr)
            version == get_ip_version(cidr)
        IN /\ version = "ipv6" => n \in 0..128
           /\ version = "ipv4" => n \in 0..32
           /\ (AllIn(AddressOf(cidr), HexColon) /\ n >= 129) =>
                 (version = "ValueError" /\ pc = "failed")
           /\ (~AllIn(AddressOf(cidr), HexColon) /\ n >= 33) =>
                 (version = "ValueError" /\ pc = "failed")

---------------------------------------------------------------------------
(* C23 *)

\* C23: get_driver_options applied to its own result returns that result;
\* it renders the booleans true and false as the strings "true" and
\* "false", and returns the empty dict for None.
C23_NormalizationIdempotent ==
    pc # "start" =>
        LET m == params.driver_options
            once == get_driver_options(m)
        IN /\ parameters.driver_options = once
           /\ get_driver_options(once) = once
           /\ \A k \in DOMAIN m :
                 /\ m[k] = BoolVal(TRUE) => once[k] = StrVal("true")
                 /\ m[k] = BoolVal(FALSE) => once[k] = StrVal("false")
           /\ DOMAIN once = DOMAIN m
           /\ get_driver_options(None) = EmptyDict

\* {k1: yes, k2: 1} became {k1: "true", k2: "1"}.
C23_Witness ==
    /\ pc = "recreate"
    /\ params.driver_options = [k1 |-> BoolVal(TRUE), k2 |-> IntVal(1)]
    /\ parameters.driver_options = [k1 |-> StrVal("true"), k2 |-> StrVal("1")]
    /\ get_driver_options(parameters.driver_options) = parameters.driver_options

---------------------------------------------------------------------------
(* C24 *)

\* C24: in every pass, check mode or not, connect_containers evaluates
\* is_container_connected only on a snapshot that is not None: it is reached
\* with existing_network = None only when the connected list is empty.
C24_SnapshotHeldAtConnect ==
    (pc = "connect" /\ parameters.connected # <<>>) => existing_network # None

====
